---- MODULE Spec2Model ----
(***************************************************************************)
(* Model of the x402 payment server SDK (src/src/server.ts): the two       *)
(* SolanaX402Server variants (SPL-token and native SOL), the ledger they   *)
(* query and the clock they read.                                          *)
(*                                                                         *)
(* Display-unit numbers (JavaScript numbers such as 0.01) are represented  *)
(* as integers in units of 10^-9 display units ("nano"), so that both the  *)
(* token conversion (10^USDC_DECIMALS) and the native conversion           *)
(* (LAMPORTS_PER_SOL) are exact scalings.  Optional values are <<>> when   *)
(* absent (null / undefined) and <<v>> when present.                       *)
(***************************************************************************)
EXTENDS Integers, Sequences, FiniteSets, TLC

\* ------------------------------------------------------------------ bounds
MaxInstr == 2
BlockTime == 1000
ShortMaxAge == 60

\* --------------------------------------------------------- program constants
DefaultMaxAgeSeconds == 300
USDC_DECIMALS == 6
SOL_DECIMALS == 9

\* one display unit, in the model's fixed-point representation
DisplayScale == 10^9

LAMPORTS_PER_SOL == 10^9

\* const tolerance = 0.0001 (display units)
ToleranceNano == DisplayScale \div 10000

Abs(x) == IF x < 0 THEN 0 - x ELSE x

Some(x) == <<x>>

None == <<>>

\* ------------------------------------------------------------------ addresses
RecipientKey == "recipient"

OtherKey == "other"

PayerKey == "payer"

MalformedKey == "not-a-key"

\* new PublicKey(s) throws unless s decodes to a 32-byte key
IsValidKey(s) == s \in {RecipientKey, OtherKey, PayerKey}

InvalidKeyMessage == <<"Invalid", "public", "key", "input">>

\* getAssociatedTokenAddress(mint, owner).toBase58(): one address per owner
AssociatedTokenAddress(owner) ==
  CASE owner = RecipientKey -> "ata-recipient"
    [] owner = OtherKey -> "ata-other"
    [] OTHER -> "ata-payer"

\* ------------------------------------------------------------------ ledger
WellFormedSignatures == {"sigA"}

MalformedSignature == "bad*sig"

Signatures == WellFormedSignatures \cup {MalformedSignature}

\* One instruction of tx.transaction.message.instructions.  parsed = FALSE is a
\* PartiallyDecodedInstruction (no 'parsed' member).  amount is
\* parsed.info.amount || parsed.info.tokenAmount?.amount, absent for
\* instructions that carry neither (a system-program transfer has 'lamports').
Instr(program, parsed, type, source, destination, amount) ==
  [program |-> program, parsed |-> parsed, type |-> type, source |-> source,
   destination |-> destination, amount |-> amount]

Instructions ==
  { Instr("spl-token", TRUE, "transfer", "ata-payer", "ata-recipient", Some(10000)),
    Instr("spl-token", TRUE, "transferChecked", "ata-payer", "ata-recipient", Some(15000)),
    Instr("spl-token", TRUE, "transfer", "ata-payer", "ata-other", Some(15000)),
    Instr("system", TRUE, "transfer", PayerKey, "ata-recipient", None),
    Instr("spl-token", TRUE, "approve", "ata-payer", "ata-other", Some(15000)),
    Instr("memo", FALSE, "", "", "", None) }

InstrSeqs == UNION { [1..n -> Instructions] : n \in 0..MaxInstr }

\* staticAccountKeys with meta.preBalances / meta.postBalances (lamports)
Accounts(keys, pre, post) == [keys |-> keys, pre |-> pre, post |-> post]

PreBalance == 5 * 10^6

RecipientDeltas == {0, 9899999, 10000000, 10100000, 10100001, 15100000}

AccountLayouts ==
  { Accounts(<<PayerKey, RecipientKey>>, <<50000000, PreBalance>>,
             <<30000000, PreBalance + d>>) : d \in RecipientDeltas }
  \cup { Accounts(<<RecipientKey, OtherKey>>, <<PreBalance, 0>>,
                  <<PreBalance + d, 0>>) : d \in {0, 10000000} }
  \cup { Accounts(<<PayerKey, OtherKey>>, <<50000000, 0>>, <<30000000, 10000000>>) }

DefaultAccounts ==
  Accounts(<<PayerKey, "ata-payer", "ata-recipient">>, <<50000000, 2000000, 2000000>>,
           <<49995000, 2000000, 2000000>>)

\* A transaction record: meta.err, blockTime (0 stands for null), the
\* instruction list and the account list with its balance snapshots.
Tx(err, blockTime, instructions, accounts) ==
  [err |-> err, blockTime |-> blockTime, instructions |-> instructions,
   accounts |-> accounts]

\* The records the ledger may hold: every instruction list on a fresh,
\* successful record; failed or untimed records with at most one instruction;
\* and the balance layouts with no parsed instruction.
TxRecords ==
  { Tx(FALSE, BlockTime, ins, DefaultAccounts) : ins \in InstrSeqs }
  \cup { Tx(e, bt, ins, DefaultAccounts) :
      e \in BOOLEAN, bt \in {0, BlockTime},
      ins \in {q \in InstrSeqs : Len(q) <= 1} }
  \cup { Tx(e, bt, <<>>, acc) :
      e \in BOOLEAN, bt \in {0, BlockTime}, acc \in AccountLayouts }

\* ------------------------------------------------------------------ verdicts
\* An error reason: the words of the message and the numbers interpolated
\* into it.
Reason(words, args) == [words |-> words, args |-> args]

\* a display-unit number, or NaN (undefined / 10^6)
Num(nano) == [nan |-> FALSE, nano |-> nano]

NaN == [nan |-> TRUE, nano |-> 0]

\* PaymentVerification, every optional member as an option
FailedVerification(reason) ==
  [valid |-> FALSE, signature |-> None, amount |-> None, token |-> None,
   from |-> None, to |-> None, timestamp |-> None, error |-> Some(reason)]

\* a success verdict that forgets the destination
ValidVerificationNoDestination(signature, amount, token, from, to, timestamp) ==
  [valid |-> TRUE, signature |-> Some(signature), amount |-> Some(amount),
   token |-> Some(token), from |-> Some(from), to |-> None,
   timestamp |-> timestamp, error |-> None]

ValidVerification(signature, amount, token, from, to, timestamp) ==
  [valid |-> TRUE, signature |-> Some(signature), amount |-> Some(amount),
   token |-> Some(token), from |-> Some(from), to |-> Some(to),
   timestamp |-> timestamp, error |-> None]

\* What a call of an async method produces: a resolved value or a rejection,
\* and for verifyPayment the stages it evaluated, in order.
Returned(value, stages) ==
  [kind |-> "return", value |-> Some(value), thrown |-> None, stages |-> stages]

Thrown(message, stages) ==
  [kind |-> "throw", value |-> None, thrown |-> Some(message), stages |-> stages]

\* ------------------------------------------------------------------ fetch
RpcErrorMessage == <<"fetch", "failed">>

BadSignatureMessage == <<"Invalid", "param", "WrongSize">>

\* connection.getTransaction / getParsedTransaction at 'confirmed' depth:
\* resolves to the record or null, or rejects (malformed reference, node
\* unreachable).
GetTransaction(chain, signature, rpcUp) ==
  IF signature \notin WellFormedSignatures
    THEN [status |-> "throw", tx |-> None, message |-> BadSignatureMessage]
  ELSE IF ~rpcUp
    THEN [status |-> "throw", tx |-> None, message |-> RpcErrorMessage]
  ELSE [status |-> "ok", tx |-> chain[signature], message |-> <<>>]

\* the execution check left out
HasExecutionErrorIgnored(tx) == FALSE

\* tx.meta?.err
HasExecutionError(tx) == tx.err

\* ------------------------------------------------------------------ token
\* findTokenTransfer: first parsed instruction of type transfer or
\* transferChecked, whatever its program
RECURSIVE FindTokenTransfer(_)
FindTokenTransfer(instructions) ==
  IF instructions = <<>> THEN None
  ELSE LET instruction == Head(instructions) IN
       IF instruction.parsed /\ instruction.type \in {"transfer", "transferChecked"}
         THEN Some([source |-> instruction.source,
                    destination |-> instruction.destination,
                    amount |-> instruction.amount])
         ELSE FindTokenTransfer(Tail(instructions))

\* base units -> display units: amount / Math.pow(10, USDC_DECIMALS)
TokenDisplayAmount(amount) ==
  IF amount = None THEN NaN ELSE Num(amount[1] * (DisplayScale \div 10^USDC_DECIMALS))

\* transferInfo.amount < expectedAmount * Math.pow(10, USDC_DECIMALS);
\* undefined < x is false
TokenInsufficient(amount, expectedNano) ==
  amount # None /\ amount[1] * (DisplayScale \div 10^USDC_DECIMALS) < expectedNano

\* age > maxAgeSeconds with age = Date.now() / 1000 - txTime (fractional),
\* skipped when blockTime is null
TokenTooOld(tx, nowMs, maxAgeSeconds) ==
  tx.blockTime # 0 /\ nowMs - tx.blockTime * 1000 > maxAgeSeconds * 1000

\* no catch: the rejection propagates
TokenCatchRethrow(message, stages) == Thrown(message, stages)

\* catch (error): error.message || 'Unknown error during verification'
TokenCatch(message, stages) ==
  Returned(FailedVerification(Reason(
    IF message = <<>> THEN <<"Unknown", "error", "during", "verification">>
    ELSE message, <<>>)), stages)

TokenVerifyPayment(self, signature, expectedNano, maxAgeSeconds, nowMs, fetched) ==
  IF fetched.status = "throw" THEN TokenCatch(fetched.message, <<"fetch">>)
  ELSE IF fetched.tx = None
    THEN Returned(FailedVerification(Reason(<<"Transaction", "not", "found">>, <<>>)),
                  <<"fetch">>)
  ELSE LET tx == fetched.tx[1]
           transferInfo == FindTokenTransfer(tx.instructions)
       IN
    IF HasExecutionError(tx)
      THEN Returned(FailedVerification(Reason(<<"Transaction", "failed">>, <<>>)),
                    <<"fetch", "execution">>)
    ELSE IF TokenTooOld(tx, nowMs, maxAgeSeconds)
      THEN Returned(FailedVerification(Reason(<<"Transaction", "too", "old">>,
                      <<(nowMs - tx.blockTime * 1000) \div 1000, maxAgeSeconds>>)),
                    <<"fetch", "execution", "freshness">>)
    ELSE IF transferInfo = None
      THEN Returned(FailedVerification(Reason(
                      <<"No", "token", "transfer", "found", "in", "transaction">>, <<>>)),
                    <<"fetch", "execution", "freshness", "extraction">>)
    ELSE IF Some(transferInfo[1].destination) # self.recipientTokenAccount
      THEN Returned(FailedVerification(Reason(
                      <<"Payment", "sent", "to", "wrong", "address">>, <<>>)),
                    <<"fetch", "execution", "freshness", "extraction", "recipient">>)
    ELSE IF TokenInsufficient(transferInfo[1].amount, expectedNano)
      THEN Returned(FailedVerification(Reason(
                      <<"Insufficient", "payment", "amount">>,
                      <<expectedNano>>)),
                    <<"fetch", "execution", "freshness", "extraction", "recipient",
                      "amount">>)
    ELSE Returned(ValidVerification(signature, TokenDisplayAmount(transferInfo[1].amount),
                    "USDC", transferInfo[1].source, transferInfo[1].destination,
                    IF tx.blockTime = 0 THEN None ELSE Some(tx.blockTime)),
                  <<"fetch", "execution", "freshness", "extraction", "recipient",
                    "amount">>)


\* ------------------------------------------------------------------ native
\* staticAccountKeys.findIndex(key => key.equals(recipientPubkey)); 0 is -1
RECURSIVE FindIndexFrom(_, _, _)
FindIndexFrom(keys, key, i) ==
  IF i > Len(keys) THEN 0
  ELSE IF keys[i] = key THEN i
  ELSE FindIndexFrom(keys, key, i + 1)

FindIndex(keys, key) == FindIndexFrom(keys, key, 1)

\* Pairs <<received, expected>> (nano) whose exact difference equals the
\* tolerance but for which the IEEE-754 double evaluation of
\* Math.abs(received / 1e9 - expected) exceeds 0.0001: 0.0151 - 0.015 does,
\* while 0.0101 - 0.01 (0.0000999999999999994) and 0 - 0.0001 do not.
RoundsAboveTolerance == { <<15100000, 15000000>> }

\* Math.abs(receivedSol - expectedAmountSol) > tolerance, in doubles: exact
\* away from the boundary, rounding-dependent on it
ExceedsTolerance(receivedNano, expectedNano) ==
  LET diff == Abs(receivedNano - expectedNano) IN
  IF diff # ToleranceNano THEN diff > ToleranceNano
  ELSE <<receivedNano, expectedNano>> \in RoundsAboveTolerance

\* age > maxAgeSeconds with now = Math.floor(Date.now() / 1000) and
\* txTime = tx.blockTime || 0
NativeAge(tx, nowMs) == nowMs \div 1000 - tx.blockTime

NativeTooOld(tx, nowMs, maxAgeSeconds) == NativeAge(tx, nowMs) > maxAgeSeconds

\* catch (error): `Verification failed: ${error.message}`
NativeCatch(message, stages) ==
  Returned(FailedVerification(Reason(<<"Verification", "failed">> \o message, <<>>)),
           stages)

NativeVerifyPayment(self, signature, expectedNano, maxAgeSeconds, nowMs, fetched) ==
  IF fetched.status = "throw" THEN NativeCatch(fetched.message, <<"fetch">>)
  ELSE IF fetched.tx = None
    THEN Returned(FailedVerification(Reason(<<"Transaction", "not", "found">>, <<>>)),
                  <<"fetch">>)
  ELSE LET tx == fetched.tx[1]
           keys == tx.accounts.keys
           recipientIndex == FindIndex(keys, self.recipientAddress)
           receivedLamports ==
             tx.accounts.post[recipientIndex] - tx.accounts.pre[recipientIndex]
           receivedNano == receivedLamports * (DisplayScale \div LAMPORTS_PER_SOL)
       IN
    IF NativeTooOld(tx, nowMs, maxAgeSeconds)
      THEN Returned(FailedVerification(Reason(<<"Transaction", "too", "old">>,
                      <<NativeAge(tx, nowMs), maxAgeSeconds>>)),
                    <<"fetch", "freshness">>)
    ELSE IF HasExecutionError(tx)
      THEN Returned(FailedVerification(Reason(<<"Transaction", "failed">>, <<>>)),
                    <<"fetch", "freshness", "execution">>)
    ELSE IF ~IsValidKey(self.recipientAddress)
      THEN NativeCatch(InvalidKeyMessage,
                       <<"fetch", "freshness", "execution", "extraction">>)
    ELSE IF recipientIndex = 0
      THEN Returned(FailedVerification(Reason(
                      <<"Recipient", "not", "found", "in", "transaction">>, <<>>)),
                    <<"fetch", "freshness", "execution", "extraction">>)
    ELSE IF ExceedsTolerance(receivedNano, expectedNano)
      THEN Returned(FailedVerification(Reason(<<"Amount", "mismatch">>,
                      <<expectedNano, receivedNano>>)),
                    <<"fetch", "freshness", "execution", "extraction", "amount">>)
    ELSE Returned(ValidVerification(signature, Num(receivedNano), "SOL", keys[1],
                    self.recipientAddress, Some(tx.blockTime)),
                  <<"fetch", "freshness", "execution", "extraction", "amount">>)

\* ------------------------------------------------------------------ server
\* A SolanaX402Server instance; mode "none" before construction.
NoServer == [mode |-> "none", recipientAddress |-> "", recipientTokenAccount |-> None]

\* constructor(config): stores the config, validates nothing about the recipient
NewServer(mode, recipientAddress) ==
  [mode |-> mode, recipientAddress |-> recipientAddress, recipientTokenAccount |-> None]

\* initialize(): the instance afterwards and what the call produced
InitializeServer(self) ==
  IF self.mode = "token"
    THEN IF IsValidKey(self.recipientAddress)
           THEN [self |-> [self EXCEPT !.recipientTokenAccount =
                             Some(AssociatedTokenAddress(self.recipientAddress))],
                 out |-> Returned("void", <<>>)]
           ELSE [self |-> self, out |-> Thrown(InvalidKeyMessage, <<>>)]
    ELSE IF IsValidKey(self.recipientAddress)
           THEN [self |-> self, out |-> Returned("void", <<>>)]
           ELSE [self |-> self,
                 out |-> Thrown(<<"Invalid", "recipient", "address">>, <<>>)]

VerifyPayment(self, signature, expectedNano, maxAgeSeconds, nowMs, fetched) ==
  IF self.mode = "token"
    THEN TokenVerifyPayment(self, signature, expectedNano, maxAgeSeconds, nowMs, fetched)
    ELSE NativeVerifyPayment(self, signature, expectedNano, maxAgeSeconds, nowMs, fetched)

\* amount.toString(): the decimal digits of a display-unit number
DecimalString(nano) == [whole |-> nano \div DisplayScale, frac |-> nano % DisplayScale]

\* resourceId || `payment-${Date.now()}` (prefix 'sol-' in the native variant)
PaymentId(self, resourceId, nowMs) ==
  IF resourceId # None /\ resourceId[1] # ""
    THEN [text |-> resourceId[1], stamp |-> None]
    ELSE [text |-> IF self.mode = "token" THEN "payment-" ELSE "sol-",
          stamp |-> Some(nowMs)]

PaymentRequirementsOf(self, amountNano, resourceId, nowMs) ==
  [version |-> "X402_VERSION",
   paymentOptions |->
     << [id |-> PaymentId(self, resourceId, nowMs),
         scheme |-> "solana",
         network |-> "devnet",
         recipient |-> self.recipientAddress,
         token |-> IF self.mode = "token" THEN "USDC_DEVNET_MINT" ELSE "native",
         amount |-> DecimalString(amountNano),
         decimals |-> IF self.mode = "token" THEN USDC_DECIMALS ELSE SOL_DECIMALS] >>]

\* createPaymentRequirements: the token variant first runs initialize() when
\* recipientTokenAccount is still null, and a rejection of it propagates
CreatePaymentRequirements(self, amountNano, resourceId, nowMs) ==
  LET lazy == self.mode = "token" /\ self.recipientTokenAccount = None
      init == InitializeServer(self)
  IN IF lazy /\ init.out.kind = "throw"
       THEN [self |-> init.self, out |-> init.out]
       ELSE [self |-> IF lazy THEN init.self ELSE self,
             out |-> Returned(PaymentRequirementsOf(self, amountNano, resourceId, nowMs),
                              <<>>)]

\* create402Response: wraps the requirements
Create402Response(self, amountNano, resourceId, nowMs) ==
  LET req == CreatePaymentRequirements(self, amountNano, resourceId, nowMs) IN
  IF req.out.kind = "throw" THEN req
  ELSE [self |-> req.self,
        out |-> Returned([statusCode |-> 402,
                          headers |-> [contentType |-> "application/json",
                                       wwwAuthenticate |-> <<"x402", "version=", "X402_VERSION">>],
                          body |-> req.out.value[1]], <<>>)]

\* the existence test inverted
IsSignatureUsedInverted(fetched) ==
  IF fetched.status = "throw" THEN Thrown(fetched.message, <<>>)
  ELSE Returned(fetched.tx = None, <<>>)

\* isSignatureUsed: tx !== null; a rejected fetch propagates
IsSignatureUsed(fetched) ==
  IF fetched.status = "throw" THEN Thrown(fetched.message, <<>>)
  ELSE Returned(fetched.tx # None, <<>>)

\* ------------------------------------------------------------------ state
\* server: the instance; ledger: signature -> confirmed record (fixed during a
\* behaviour: confirmed records are immutable); now: the clock (ms) as last read; last: the most recent call that produced a value, with
\* what it produced.
VARIABLES server, ledger, now, last

vars == <<server, ledger, now, last>>

Modes == {"token", "native"}

RecipientAddresses == {RecipientKey, MalformedKey}

Prices == {10^5, 10^7, 15 * 10^6}

ChallengePrices == {10^7}

MaxAges == {DefaultMaxAgeSeconds, ShortMaxAge}

ResourceIds == {None, Some("res-1")}

\* a fetch is determined by the signature and by whether the RPC node answers
FetchInputs == (WellFormedSignatures \X BOOLEAN) \cup {<<MalformedSignature, TRUE>>}

ClockPoints ==
  { BlockTime * 1000 + a :
      a \in {0, DefaultMaxAgeSeconds * 1000, DefaultMaxAgeSeconds * 1000 + 500} }

NoFetch == [status |-> "none", tx |-> None, message |-> <<>>]

\* A recorded call.  prior is, for a verifyPayment call, the outcome of the
\* call recorded just before it when that was a verifyPayment call on the same
\* signature, amount, maximum age, clock reading and fetch result.
Call(op, signature, expectedNano, maxAgeSeconds, resourceId, nowMs, fetched, self, out, prior) ==
  [op |-> op, signature |-> signature, expectedNano |-> expectedNano,
   maxAgeSeconds |-> maxAgeSeconds, resourceId |-> resourceId, nowMs |-> nowMs,
   fetched |-> fetched, self |-> self, out |-> out, prior |-> prior]

SameVerifyInputs(c, signature, expectedNano, maxAgeSeconds, nowMs, fetched) ==
  /\ c.op = "verifyPayment"
  /\ c.signature = signature
  /\ c.expectedNano = expectedNano
  /\ c.maxAgeSeconds = maxAgeSeconds
  /\ c.nowMs = nowMs
  /\ c.fetched = fetched

Init ==
  /\ server = NoServer
  /\ ledger \in [WellFormedSignatures -> {None} \cup {Some(tx) : tx \in TxRecords}]
  /\ now = BlockTime * 1000
  /\ last = None

Construct(mode, recipientAddress) ==
  /\ server.mode = "none"
  /\ server' = NewServer(mode, recipientAddress)
  /\ UNCHANGED <<ledger, now, last>>

\* initialize() resolves to nothing, so it leaves no recorded value
Initialize ==
  /\ server.mode # "none"
  /\ server' = InitializeServer(server).self
  /\ UNCHANGED <<ledger, now, last>>

\* verifyPayment(signature, expectedAmount, maxAgeSeconds) called when the
\* clock reads t
Verify(signature, expectedNano, maxAgeSeconds, rpcUp, t) ==
  /\ server.mode # "none"
  /\ t >= now
  /\ now' = t
  /\ LET fetched == GetTransaction(ledger, signature, rpcUp) IN
     last' = Some(Call("verifyPayment", signature, expectedNano, maxAgeSeconds, None, t,
                       fetched, server,
                       VerifyPayment(server, signature, expectedNano, maxAgeSeconds,
                                     t, fetched),
                       IF last # None
                          /\ SameVerifyInputs(last[1], signature, expectedNano,
                                              maxAgeSeconds, t, fetched)
                         THEN Some(last[1].out) ELSE None))
  /\ UNCHANGED <<server, ledger>>

CheckSignatureUsed(signature, rpcUp) ==
  /\ server.mode # "none"
  /\ LET fetched == GetTransaction(ledger, signature, rpcUp) IN
     last' = Some(Call("isSignatureUsed", signature, 0, 0, None, now, fetched, server,
                       IsSignatureUsed(fetched), None))
  /\ UNCHANGED <<server, ledger, now>>

RequestRequirements(amountNano, resourceId) ==
  /\ server.mode # "none"
  /\ LET r == CreatePaymentRequirements(server, amountNano, resourceId, now) IN
     /\ server' = r.self
     /\ last' = Some(Call("createPaymentRequirements", "", amountNano, 0, resourceId,
                          now, NoFetch, server, r.out, None))
  /\ UNCHANGED <<ledger, now>>

Request402Response(amountNano, resourceId) ==
  /\ server.mode # "none"
  /\ LET r == Create402Response(server, amountNano, resourceId, now) IN
     /\ server' = r.self
     /\ last' = Some(Call("create402Response", "", amountNano, 0, resourceId,
                          now, NoFetch, server, r.out, None))
  /\ UNCHANGED <<ledger, now>>

Next ==
  \/ \E m \in Modes, a \in RecipientAddresses : Construct(m, a)
  \/ Initialize
  \/ \E f \in FetchInputs, p \in Prices, m \in MaxAges, t \in ClockPoints :
       Verify(f[1], p, m, f[2], t)
  \/ \E f \in FetchInputs : CheckSignatureUsed(f[1], f[2])
  \/ \E p \in ChallengePrices, r \in ResourceIds : RequestRequirements(p, r)
  \/ \E p \in ChallengePrices, r \in ResourceIds : Request402Response(p, r)

Spec == Init /\ [][Next]_vars


\* ------------------------------------------------- challenge specification
\* The challenge builders over every price and over absent, empty and
\* non-empty resource identifiers, with the clock moving between calls.
ChallengeResourceIds == {None, Some(""), Some("res-1")}

EmptyLedger == [s \in WellFormedSignatures |-> None]

SameChallengeInputs(c, amountNano, resourceId) ==
  /\ c.op = "create402Response"
  /\ c.expectedNano = amountNano
  /\ c.resourceId = resourceId

InitChallenge ==
  /\ server = NoServer
  /\ ledger = EmptyLedger
  /\ now = BlockTime * 1000
  /\ last = None

\* create402Response(amount, resourceId) called when the clock reads t; prior
\* is the outcome of the call recorded just before it when that was a
\* create402Response call with the same amount and resource identifier
Challenge402(amountNano, resourceId, t) ==
  /\ server.mode # "none"
  /\ t >= now
  /\ now' = t
  /\ LET r == Create402Response(server, amountNano, resourceId, t) IN
     /\ server' = r.self
     /\ last' = Some(Call("create402Response", "", amountNano, 0, resourceId, t,
                          NoFetch, server, r.out,
                          IF last # None /\ SameChallengeInputs(last[1], amountNano, resourceId)
                            THEN Some(last[1].out) ELSE None))
  /\ UNCHANGED ledger

NextChallenge ==
  \/ \E m \in Modes, a \in RecipientAddresses : Construct(m, a)
  \/ Initialize
  \/ \E p \in Prices, r \in ChallengeResourceIds, t \in ClockPoints : Challenge402(p, r, t)

SpecChallenge == InitChallenge /\ [][NextChallenge]_vars


\* ------------------------------------------------------ host wrapper (n8n)
\* PocketNodeMock.execute.  The wrapper builds an SDK server per item and
\* calls it; what the item's parameters resolve to and what the SDK call
\* produces are the item's inputs.
MaxItems == 3

\* a value thrown inside the per-item try block: an Error carrying a message,
\* or a value that is not an Error
ThrownError(isError, message) == [isError |-> isError, message |-> message]

\* One input item as the loop body sees it: the walletAddress and signature
\* parameters, the value thrown while the item is processed (parameter
\* resolution, generateWallet, the SDK constructor or the SDK call) if any,
\* the verdict verifyPayment resolves to and the object create402Response
\* returns.
Item(walletAddress, signature, failure, verification, response) ==
  [walletAddress |-> walletAddress, signature |-> signature, failure |-> failure,
   verification |-> verification, response |-> response]

ChallengeObject == [headers |-> "x402-headers", body |-> "x402-requirements"]

ItemInputs ==
  { Item(RecipientKey, "sigA", None,
         ValidVerification("sigA", Num(10^7), "USDC", PayerKey, RecipientKey, Some(BlockTime)),
         ChallengeObject),
    Item("", "sigA", None,
         FailedVerification(Reason(<<"Transaction", "not", "found">>, <<>>)),
         ChallengeObject),
    Item(RecipientKey, MalformedSignature, Some(ThrownError(TRUE, RpcErrorMessage)),
         FailedVerification(Reason(<<"Transaction", "not", "found">>, <<>>)),
         ChallengeObject),
    Item("", "sigA", Some(ThrownError(FALSE, <<"timeout">>)),
         FailedVerification(Reason(<<"Transaction", "not", "found">>, <<>>)),
         ChallengeObject) }

Batches == UNION { [1..n -> ItemInputs] : n \in 0..MaxItems }

\* the options of the 'operation' parameter
Operations == {"return402", "verifyPayment"}

\* { json: { statusCode: 402, ...response }, pairedItem: { item: i } }
ChallengeEntry(item, i) ==
  [json |-> item.response @@ [statusCode |-> 402], pairedItem |-> [item |-> i]]

\* { json: { verified, signature, amount, from, to, error }, pairedItem }
VerificationEntry(item, i) ==
  [json |-> [verified |-> item.verification.valid,
             signature |-> item.signature,
             amount |-> item.verification.amount,
             from |-> item.verification.from,
             to |-> item.verification.to,
             error |-> item.verification.error],
   pairedItem |-> [item |-> i]]

\* error instanceof Error ? error.message : 'Unknown error'
ErrorMessageOf(error) ==
  IF error.isError THEN error.message ELSE <<"Unknown", "error">>

ErrorEntry(error, i) ==
  [json |-> [error |-> ErrorMessageOf(error)], pairedItem |-> [item |-> i]]

\* new NodeOperationError(this.getNode(), error, { itemIndex: i }); a thrown
\* string becomes the error's message
NodeOperationError(error, i) == [message |-> error.message, itemIndex |-> i]

\* the try block of one iteration: the entries it pushes
TryItem(operation, item, i) ==
  IF operation = "return402" THEN <<ChallengeEntry(item, i)>>
  ELSE IF operation = "verifyPayment" THEN <<VerificationEntry(item, i)>>
  ELSE <<>>

\* the catch block that swallows the error without an entry
CatchItemSilently(continueOnFail, error, i, returnData) ==
  IF continueOnFail
    THEN [continue |-> TRUE, returnData |-> returnData, thrown |-> None]
    ELSE [continue |-> FALSE, returnData |-> returnData,
          thrown |-> Some(NodeOperationError(error, i))]

\* the catch block: push an error entry and continue, or abort the batch
CatchItem(continueOnFail, error, i, returnData) ==
  IF continueOnFail
    THEN [continue |-> TRUE, returnData |-> Append(returnData, ErrorEntry(error, i)),
          thrown |-> None]
    ELSE [continue |-> FALSE, returnData |-> returnData,
          thrown |-> Some(NodeOperationError(error, i))]

\* the loop from the item at position k (source index k - 1) on
RECURSIVE ExecuteLoop(_, _, _, _, _)
ExecuteLoop(operation, items, continueOnFail, k, returnData) ==
  IF k > Len(items) THEN Returned(<<returnData>>, <<>>)
  ELSE IF items[k].failure = None
    THEN ExecuteLoop(operation, items, continueOnFail, k + 1,
                     returnData \o TryItem(operation, items[k], k - 1))
  ELSE LET caught == CatchItem(continueOnFail, items[k].failure[1], k - 1, returnData) IN
       IF caught.continue
         THEN ExecuteLoop(operation, items, continueOnFail, k + 1, caught.returnData)
         ELSE Thrown(caught.thrown[1], <<>>)

ExecuteNode(operation, items, continueOnFail) ==
  ExecuteLoop(operation, items, continueOnFail, 1, <<>>)

InitExecute ==
  /\ server = NoServer
  /\ ledger = EmptyLedger
  /\ now = BlockTime * 1000
  /\ last = None

\* one run of the node over a batch
Execute(operation, items, continueOnFail) ==
  /\ last' = Some([op |-> "execute", operation |-> operation, items |-> items,
                   continueOnFail |-> continueOnFail,
                   out |-> ExecuteNode(operation, items, continueOnFail)])
  /\ UNCHANGED <<server, ledger, now>>

NextExecute ==
  \E o \in Operations, b \in Batches, c \in BOOLEAN : Execute(o, b, c)

SpecExecute == InitExecute /\ [][NextExecute]_vars


\* ------------------------------------------------- in-flight verification
\* verifyPayment as the event loop runs it: the call issues the ledger fetch
\* and suspends at the await; when the ledger answers, the promise settles;
\* the continuation then computes the verdict and the call returns.  The
\* fetch is issued with a commitment and a version option only: no timeout,
\* no abort signal, no race against a timer.
FetchRecords ==
  { Tx(FALSE, BlockTime, <<>>, acc) : acc \in AccountLayouts }

\* a call in flight; answers tells whether the ledger ever answers its fetch
Pending(phase, answers, rpcUp, signature, expectedNano, maxAgeSeconds, fetched, self, out) ==
  [op |-> "verifyPayment", phase |-> phase, answers |-> answers, rpcUp |-> rpcUp,
   signature |-> signature, expectedNano |-> expectedNano,
   maxAgeSeconds |-> maxAgeSeconds, fetched |-> fetched, self |-> self, out |-> out]

InitFetch ==
  /\ server = NoServer
  /\ ledger \in [WellFormedSignatures -> {None} \cup {Some(tx) : tx \in FetchRecords}]
  /\ now = BlockTime * 1000
  /\ last = None

\* the call up to its await
BeginVerify(signature, expectedNano, maxAgeSeconds, rpcUp, answers) ==
  /\ server.mode # "none"
  /\ IF last = None THEN TRUE ELSE last[1].phase = "returned"
  /\ last' = Some(Pending("awaiting", answers, rpcUp, signature, expectedNano,
                          maxAgeSeconds, NoFetch, server, None))
  /\ UNCHANGED <<server, ledger, now>>

\* the ledger answers the fetch: the promise resolves or rejects
LedgerAnswers ==
  /\ last # None /\ last[1].phase = "awaiting" /\ last[1].answers
  /\ last' = Some([last[1] EXCEPT
                     !.phase = "settled",
                     !.fetched = GetTransaction(ledger, last[1].signature, last[1].rpcUp)])
  /\ UNCHANGED <<server, ledger, now>>

\* the continuation after the await, down to the return
ResumeVerify ==
  /\ last # None /\ last[1].phase = "settled"
  /\ last' = Some([last[1] EXCEPT
                     !.phase = "returned",
                     !.out = Some(VerifyPayment(server, last[1].signature,
                                                last[1].expectedNano,
                                                last[1].maxAgeSeconds, now,
                                                last[1].fetched))])
  /\ UNCHANGED <<server, ledger, now>>

NextFetch ==
  \/ \E m \in Modes, a \in RecipientAddresses : Construct(m, a)
  \/ \E f \in FetchInputs, p \in Prices, b \in BOOLEAN :
       BeginVerify(f[1], p, DefaultMaxAgeSeconds, f[2], b)
  \/ LedgerAnswers
  \/ ResumeVerify

\* The event loop runs the continuation of a settled promise, and a ledger
\* that answers a request does so eventually; nothing obliges a ledger to
\* answer.
SpecFetch ==
  InitFetch /\ [][NextFetch]_vars /\ WF_vars(ResumeVerify) /\ WF_vars(LedgerAnswers)


\* ------------------------------------------------------------------ claims
IsVerify == last # None /\ last[1].op = "verifyPayment"

\* the recorded call
C == last[1]

IsReturn == C.out.kind = "return"

\* the PaymentVerification the recorded verifyPayment call resolved to
Verdict == C.out.value[1]

Found == C.fetched.status = "ok" /\ C.fetched.tx # None

Record == C.fetched.tx[1]

Contains(words, w) == \E i \in 1..Len(words) : words[i] = w

ErrorWords == Verdict.error[1].words

Rejected == IsReturn /\ ~Verdict.valid /\ Verdict.error # None

RejectedWith(w) == Rejected /\ Contains(ErrorWords, w)

\* age in whole seconds, now - blockTime, of a timed record
AgeSeconds == C.nowMs \div 1000 - Record.blockTime

Stale == Record.blockTime # 0 /\ AgeSeconds > C.maxAgeSeconds

Fresh == Record.blockTime # 0 /\ AgeSeconds <= C.maxAgeSeconds

StageRank(stage) ==
  CASE stage = "fetch" -> 1
    [] stage = "freshness" -> 2
    [] stage = "execution" -> 3
    [] stage = "extraction" -> 4
    [] stage = "recipient" -> 5
    [] stage = "amount" -> 6

StagesInOrder(stages) ==
  \A i \in 1..(Len(stages) - 1) : StageRank(stages[i]) < StageRank(stages[i + 1])

\* the stage a business failure reason belongs to
StageOfReason(words) ==
  CASE words = <<"Transaction", "not", "found">> -> "fetch"
    [] words = <<"Transaction", "too", "old">> -> "freshness"
    [] words = <<"Transaction", "failed">> -> "execution"
    [] words = <<"No", "token", "transfer", "found", "in", "transaction">> -> "extraction"
    [] words = <<"Recipient", "not", "found", "in", "transaction">> -> "extraction"
    [] words = <<"Payment", "sent", "to", "wrong", "address">> -> "recipient"
    [] words = <<"Insufficient", "payment", "amount">> -> "amount"
    [] words = <<"Amount", "mismatch">> -> "amount"
    [] OTHER -> "caught"

IsAmountMismatch == Rejected /\ StageOfReason(ErrorWords) = "amount"

\* C1: verifyPayment evaluates its stages in the order fetch, freshness,
\* execution check, extraction, recipient check, amount check, stops at the
\* first failing one and reports that stage's reason; a record that is both
\* stale and failed is rejected as too old, in both variants.
C1_StageOrder ==
  IsVerify =>
    /\ StagesInOrder(C.out.stages)
    /\ (Rejected /\ StageOfReason(ErrorWords) # "caught")
         => StageOfReason(ErrorWords) = C.out.stages[Len(C.out.stages)]
    /\ (Found /\ Stale /\ Record.err) => RejectedWith("old")

\* C2 (as stated): a record that reports an execution error is rejected with a
\* reason containing "failed", whatever its age, recipient and amount.
C2_FailedWhateverAge ==
  (IsVerify /\ Found /\ Record.err) => RejectedWith("failed")

\* C2 (amended): a record that reports an execution error is always rejected,
\* and with a reason containing "failed" whenever it is not older than
\* maxAgeSeconds, whatever its recipient and amount.
C2_FailedWhenFresh ==
  (IsVerify /\ Found /\ Record.err) =>
    /\ Rejected
    /\ Fresh => RejectedWith("failed")

C2_Witness ==
  /\ IsVerify /\ Found /\ Record.err /\ Fresh
  /\ C.self.mode = "native"
  /\ RejectedWith("failed")

\* C3: a found record with now - blockTime > maxAgeSeconds is rejected with a
\* reason containing "old", whatever its execution outcome, in both variants;
\* a record whose age equals maxAgeSeconds is not rejected as stale.
C3_StaleRejectedAsOld ==
  (IsVerify /\ Found) =>
    /\ Stale => RejectedWith("old")
    /\ (Record.blockTime # 0 /\ C.nowMs = (Record.blockTime + C.maxAgeSeconds) * 1000)
         => ~RejectedWith("old")

\* the transfer the token variant judges
Transfer == FindTokenTransfer(Record.instructions)

\* C4: token mode, record found, fresh and successful, extracted destination
\* equal to the recipient's associated token account: the verdict is valid
\* when the transferred base units reach expected x 10^decimals, and an
\* amount-mismatch rejection when they do not.
C4_TokenThreshold ==
  ( /\ IsVerify /\ C.self.mode = "token" /\ Found
    /\ ~Record.err /\ ~TokenTooOld(Record, C.nowMs, C.maxAgeSeconds)
    /\ IsValidKey(C.self.recipientAddress)
    /\ Transfer # None
    /\ Transfer[1].destination = AssociatedTokenAddress(C.self.recipientAddress)
    /\ Transfer[1].amount # None )
  => LET units == Transfer[1].amount[1] IN
     /\ IsReturn
     /\ (units * 10^3 >= C.expectedNano) => Verdict.valid
     /\ (units * 10^3 < C.expectedNano) => IsAmountMismatch

\* the recipient's balance delta in the record, in lamports
RecipientDelta ==
  LET i == FindIndex(Record.accounts.keys, C.self.recipientAddress) IN
  Record.accounts.post[i] - Record.accounts.pre[i]

\* C5: native mode, record found, fresh and successful, recipient among the
\* accounts: the verdict is valid exactly when the balance delta is within
\* 100000 base units of the expected amount, and an amount-mismatch rejection
\* otherwise.
C5_NativeTolerance ==
  ( /\ IsVerify /\ C.self.mode = "native" /\ Found
    /\ ~Record.err /\ ~NativeTooOld(Record, C.nowMs, C.maxAgeSeconds)
    /\ IsValidKey(C.self.recipientAddress)
    /\ FindIndex(Record.accounts.keys, C.self.recipientAddress) # 0 )
  => /\ IsReturn
     /\ Verdict.valid <=> Abs(RecipientDelta - C.expectedNano) <= 100000
     /\ ~Verdict.valid => IsAmountMismatch

\* C6: every PaymentVerification returned by verifyPayment is either valid
\* with signature, amount, asset label, source and destination set and no
\* error, or invalid with an error reason and no success member set.
C6_TwoShapes ==
  (IsVerify /\ IsReturn) =>
    \/ /\ Verdict.valid
       /\ Verdict.signature # None /\ Verdict.amount # None /\ Verdict.token # None
       /\ Verdict.from # None /\ Verdict.to # None
       /\ Verdict.error = None
    \/ /\ ~Verdict.valid
       /\ Verdict.error # None
       /\ Verdict.signature = None /\ Verdict.amount = None /\ Verdict.token = None
       /\ Verdict.from = None /\ Verdict.to = None /\ Verdict.timestamp = None

C6_Witness ==
  /\ IsVerify /\ IsReturn /\ Verdict.valid
  /\ C.self.mode = "token"
  /\ Verdict.to = Some("ata-recipient")

C8_NoMalformedInstance ==
  server.mode # "none" => IsValidKey(server.recipientAddress)

\* C9: two verifyPayment calls on one instance with the same signature,
\* expected amount, maxAgeSeconds, clock reading and ledger answer return the
\* same verdict, whatever was called on the instance between them.
C9_SameVerdict ==
  (IsVerify /\ C.prior # None) => C.prior[1] = C.out

IsChallenge == last # None /\ last[1].op = "create402Response"

\* the X402Response the recorded create402Response call resolved to
Response == C.out.value[1]

\* C11: for every price and every explicitly supplied resource identifier,
\* create402Response returns status 402, the JSON content type and the
\* WWW-Authenticate header naming the protocol version, and a body equal to
\* createPaymentRequirements' result, which holds exactly one payment option
\* with scheme "solana", the configured network and recipient, the configured
\* asset identifier, the price as a decimal string and the asset's decimals;
\* two calls with the same inputs return equal results.
C11_ChallengeShape ==
  (IsChallenge /\ C.resourceId # None) =>
    /\ IsReturn
    /\ Response.statusCode = 402
    /\ Response.headers.contentType = "application/json"
    /\ Response.headers.wwwAuthenticate = <<"x402", "version=", Response.body.version>>
    /\ Returned(Response.body, <<>>)
         = CreatePaymentRequirements(C.self, C.expectedNano, C.resourceId, C.nowMs).out
    /\ Len(Response.body.paymentOptions) = 1
    /\ LET option == Response.body.paymentOptions[1] IN
       /\ option.scheme = "solana"
       /\ option.network = "devnet"
       /\ option.recipient = C.self.recipientAddress
       /\ option.token = IF C.self.mode = "token" THEN "USDC_DEVNET_MINT" ELSE "native"
       /\ option.amount = [whole |-> 0, frac |-> C.expectedNano]
       /\ option.decimals = IF C.self.mode = "token" THEN USDC_DECIMALS ELSE SOL_DECIMALS
    /\ C.prior # None => C.prior[1] = C.out

\* positions of the instructions of the configured asset's program whose
\* decoded type is transfer or transferChecked
AssetTransferIndexes ==
  { i \in 1..Len(Record.instructions) :
      /\ Record.instructions[i].parsed
      /\ Record.instructions[i].program = "spl-token"
      /\ Record.instructions[i].type \in {"transfer", "transferChecked"} }

FirstAssetTransfer ==
  Record.instructions[CHOOSE i \in AssetTransferIndexes :
                        \A j \in AssetTransferIndexes : i <= j]

\* C14: token-mode extraction returns the source, destination and raw amount
\* of the first instruction, in list order, of the configured asset's program
\* whose decoded type is transfer or transferChecked; instructions of other
\* programs or types are skipped, and when none matches the verdict is the
\* no-transfer rejection.
C14_FirstAssetTransfer ==
  ( /\ IsVerify /\ C.self.mode = "token" /\ Found
    /\ ~Record.err /\ ~TokenTooOld(Record, C.nowMs, C.maxAgeSeconds) )
  => /\ AssetTransferIndexes = {} =>
          /\ Transfer = None
          /\ Rejected /\ StageOfReason(ErrorWords) = "extraction"
     /\ AssetTransferIndexes # {} =>
          Transfer = Some([source |-> FirstAssetTransfer.source,
                           destination |-> FirstAssetTransfer.destination,
                           amount |-> FirstAssetTransfer.amount])

RecipientListed ==
  \E i \in 1..Len(Record.accounts.keys) : Record.accounts.keys[i] = C.self.recipientAddress

\* C15: native mode: on a record that reaches extraction, when the configured
\* recipient is not among the record's account list the verdict is valid=false
\* with the no-transfer reason; every valid verdict reports the configured
\* recipient as destination, the first account of the list as source and the
\* recipient's post-balance minus pre-balance as amount; the reason "Payment
\* sent to wrong address" is never produced.
C15_NativeExtraction ==
  (IsVerify /\ C.self.mode = "native") =>
    /\ ~(Rejected /\ StageOfReason(ErrorWords) = "recipient")
    /\ ( /\ Found /\ ~Record.err /\ ~NativeTooOld(Record, C.nowMs, C.maxAgeSeconds)
         /\ ~RecipientListed )
         => /\ Rejected
            /\ ErrorWords = <<"Recipient", "not", "found", "in", "transaction">>
    /\ (IsReturn /\ Verdict.valid) =>
         /\ RecipientListed
         /\ Verdict.to = Some(C.self.recipientAddress)
         /\ Verdict.from = Some(Record.accounts.keys[1])
         /\ Verdict.amount = Some(Num(RecipientDelta))

\* the record credits the recipient's account with a strictly positive
\* base-unit amount of the asset: a positive balance delta in native mode, a
\* transfer of the asset's program into the recipient's associated token
\* account in token mode
RecipientCredited ==
  IF C.self.mode = "native"
    THEN RecipientListed /\ RecipientDelta > 0
    ELSE \E i \in AssetTransferIndexes :
           /\ Record.instructions[i].destination
                = AssociatedTokenAddress(C.self.recipientAddress)
           /\ Record.instructions[i].amount # None
           /\ Record.instructions[i].amount[1] > 0

\* C16: for every expected price greater than zero, in both modes, a
\* valid=true verdict implies that the record credits the recipient's account
\* with a strictly positive base-unit amount of the asset.
C16_ValidMeansReceived ==
  (IsVerify /\ C.expectedNano > 0 /\ IsReturn /\ Verdict.valid) =>
    /\ Found
    /\ RecipientCredited

IsExecute == last # None /\ last[1].op = "execute"

\* the entries of the single output branch of the recorded run
ReturnData == C.out.value[1][1]

Throwing == { k \in 1..Len(C.items) : C.items[k].failure # None }

\* the entry a non-throwing item produces
IsNormalEntry(entry, item) ==
  IF C.operation = "verifyPayment"
    THEN /\ DOMAIN entry.json = {"verified", "signature", "amount", "from", "to", "error"}
         /\ entry.json.verified = item.verification.valid
         /\ entry.json.signature = item.signature
         /\ entry.json.error = item.verification.error
         /\ ~item.verification.valid
              => entry.json.verified = FALSE /\ entry.json.error # None
    ELSE /\ entry.json.statusCode = 402
         /\ entry.json.body = item.response.body

\* C12: with continue-on-fail, for every batch of n items and every subset of
\* items whose processing throws, the output holds exactly n entries in input
\* order, entry i paired with item i, a throwing item represented by an error
\* entry and the later items still processed; without it the first throwing
\* item aborts the batch with an error naming that item's index and no output
\* is returned.  A valid=false verdict is a normal entry with verified=false
\* and the reason.
C12_BatchOutput ==
  IsExecute =>
    LET n == Len(C.items) IN
    IF C.continueOnFail \/ Throwing = {}
      THEN /\ IsReturn
           /\ Len(C.out.value[1]) = 1
           /\ Len(ReturnData) = n
           /\ \A k \in 1..n :
                /\ ReturnData[k].pairedItem = [item |-> k - 1]
                /\ k \in Throwing =>
                     /\ DOMAIN ReturnData[k].json = {"error"}
                     /\ ReturnData[k].json.error
                          = ErrorMessageOf(C.items[k].failure[1])
                /\ k \notin Throwing => IsNormalEntry(ReturnData[k], C.items[k])
      ELSE /\ C.out.kind = "throw"
           /\ C.out.value = None
           /\ \E k \in Throwing :
                /\ \A j \in Throwing : k <= j
                /\ C.out.thrown[1].itemIndex = k - 1

C12_Witness ==
  /\ IsExecute /\ C.continueOnFail /\ C.operation = "verifyPayment"
  /\ Len(C.items) = 3 /\ Throwing = {2}
  /\ IsReturn /\ Len(ReturnData) = 3
  /\ ~C.items[3].verification.valid
  /\ ReturnData[3].json.verified = FALSE

Awaiting == last # None /\ last[1].op = "verifyPayment" /\ last[1].phase = "awaiting"

HasReturned == last # None /\ last[1].op = "verifyPayment" /\ last[1].phase = "returned"

\* C13: every verifyPayment call eventually returns, a verdict or an error,
\* even when the ledger never answers: the fetch is bounded by a per-call
\* timeout, so no call stays pending forever.
C13_EventuallyReturns == Awaiting ~> HasReturned

====
